---- MODULE Spec2Model ----
(***************************************************************************)
(* Flight-path service: the directed graph engine (pkg/graph) and the path *)
(* synthesis of the search controller (pkg/api/controller).                *)
(*                                                                         *)
(* Strings (airport codes, vertex hashes) are modelled by the integers     *)
(* 1..n; the integer order stands for Go's lexicographic string order.     *)
(* Go map iteration order is unspecified: every operator that ranges over  *)
(* a map bucket returns the SET of results over all iteration orders.      *)
(***************************************************************************)
EXTENDS Integers, Sequences, FiniteSets, TLC

\* ------------------------------------------------------------------ bounds
\* Number of distinct vertex hashes used by the graph-level specification.
NumHashes == 3
\* Most edges the client of the graph-level specification stores at a time.
MaxEdges == 4
\* Number of distinct airport codes in a request.
NumAirports == 4
\* Longest segment list of a request.
MaxSegs == 3
\* The largest number of stored edges CreatesCycle is asked about.
MaxLoopEdges == 3
\* Airport codes and longest list of the requests compared under reordering.
ReorderAirports == 3
MaxReorderSegs == 3

Hashes == 1..NumHashes
Airports == 1..NumAirports

\* ------------------------------------------------------------------ errors
NoError == "nil"
ErrVertexNotFound == "vertex not found"
ErrVertexAlreadyExists == "vertex already exists"
ErrEdgeNotFound == "edge not found"
ErrEdgeAlreadyExists == "edge already exists"
ErrEdgeCreatesCycle == "edge would create a cycle"
ErrVertexHasEdges == "vertex has edges"

\* fmt.Errorf("<context>: %w", err): the error wrapped with its context (the
\* hash the message also prints is left out).
Errorf(context, err) == context \o ": " \o err

ErrorContexts ==
  {"source vertex", "target vertex", "check for cycles",
   "could not get vertex with hash"}

Sentinels ==
  {ErrVertexNotFound, ErrVertexAlreadyExists, ErrEdgeNotFound,
   ErrEdgeAlreadyExists, ErrEdgeCreatesCycle, ErrVertexHasEdges}

\* The pairs <<err, target>> with target wrapped in err, through at most two
\* wrappings, the deepest the code builds.
Wraps ==
  {<<Errorf(c, e), e>> : c \in ErrorContexts, e \in Sentinels}
    \cup {<<Errorf(c, Errorf(d, e)), e>> :
            c \in ErrorContexts, d \in ErrorContexts, e \in Sentinels}

\* errors.Is(err, target).
Is(err, target) == err = target \/ <<err, target>> \in Wraps

\* ------------------------------------------------------------------ traits
Traits == [IsDirected |-> FALSE, IsAcyclic |-> FALSE, PreventCycles |-> FALSE]

Directed(t) == [t EXCEPT !.IsDirected = TRUE]

Acyclic(t) == [t EXCEPT !.IsAcyclic = TRUE]

PreventCycles(t) == [Acyclic(t) EXCEPT !.PreventCycles = TRUE]

\* One functional option applied to the traits record.
ApplyOption(option, t) ==
  CASE option = "Directed" -> Directed(t)
    [] option = "Acyclic" -> Acyclic(t)
    [] option = "PreventCycles" -> PreventCycles(t)

RECURSIVE ApplyOptions(_, _)
ApplyOptions(options, t) ==
  IF options = <<>> THEN t
  ELSE ApplyOptions(Tail(options), ApplyOption(Head(options), t))

\* graph.New / NewWithStore: an empty store and the traits set by the options.
New(options) ==
  [vertices |-> {}, edges |-> {}, traits |-> ApplyOptions(options, Traits)]

\* ------------------------------------------------------------------ store
\* The in-memory store: a set of vertex hashes and a set of <<source, target>>
\* pairs (with StringHash / IntHash the value of a vertex is its hash).
StoreAddVertex(g, hash) ==
  IF hash \in g.vertices
    THEN [g |-> g, err |-> ErrVertexAlreadyExists]
    ELSE [g |-> [g EXCEPT !.vertices = @ \cup {hash}], err |-> NoError]

StoreVertex(g, hash) ==
  IF hash \in g.vertices THEN NoError ELSE ErrVertexNotFound

StoreRemoveVertex(g, hash) ==
  IF \E e \in g.edges : e[1] = hash \/ e[2] = hash
    THEN [g |-> g, err |-> ErrVertexHasEdges]
    ELSE IF hash \notin g.vertices
      THEN [g |-> g, err |-> ErrVertexNotFound]
      ELSE [g |-> [g EXCEPT !.vertices = @ \ {hash}], err |-> NoError]

StoreAddEdge(g, sourceHash, targetHash) ==
  IF sourceHash \notin g.vertices \/ targetHash \notin g.vertices
    THEN [g |-> g, err |-> ErrVertexNotFound]
    ELSE IF <<sourceHash, targetHash>> \in g.edges
      THEN [g |-> g, err |-> ErrEdgeAlreadyExists]
      ELSE [g |-> [g EXCEPT !.edges = @ \cup {<<sourceHash, targetHash>>}],
            err |-> NoError]

StoreEdge(g, sourceHash, targetHash) ==
  IF <<sourceHash, targetHash>> \in g.edges THEN NoError ELSE ErrEdgeNotFound

StoreRemoveEdge(g, sourceHash, targetHash) ==
  [g |-> [g EXCEPT !.edges = @ \ {<<sourceHash, targetHash>>}], err |-> NoError]

ListVertices(g) == g.vertices

ListEdges(g) == g.edges

\* ------------------------------------------------------------------ maps
\* All orders in which a range over a map with key set S can yield its keys.
Orders(S) ==
  LET n == Cardinality(S)
  IN {f \in [1..n -> S] : \A i, j \in 1..n : i # j => f[i] # f[j]}

\* m[k] of a Go map of maps: a missing key reads as the empty bucket.
Bucket(m, k) == IF k \in DOMAIN m THEN m[k] ELSE {}

\* directed.AdjacencyMap: an entry per vertex, then every edge bucketed by
\* its source.  A bucket is modelled by its key set (the targets).
AdjacencyMap(g) ==
  [v \in ListVertices(g) |-> {e[2] : e \in {x \in ListEdges(g) : x[1] = v}}]

\* PredecessorMap with entries for the targets of edges only.
PredecessorMapTargetsOnly(g) ==
  [v \in {e[2] : e \in ListEdges(g)} |->
     {e[1] : e \in {x \in ListEdges(g) : x[2] = v}}]

\* directed.PredecessorMap: an entry per vertex, then every edge bucketed by
\* its target; a target without an entry gets one.
PredecessorMap(g) ==
  [v \in ListVertices(g) \cup {e[2] : e \in ListEdges(g)} |->
     {e[1] : e \in {x \in ListEdges(g) : x[2] = v}}]

\* ------------------------------------------------------------------ cycle detector
\* The stack loop of CreatesCycle: the set of results over all bucket orders.
RECURSIVE CreatesCycleLoop(_, _, _, _)
CreatesCycleLoop(predecessorMap, target, stack, visited) ==
  IF stack = <<>> THEN {FALSE}
  ELSE
    LET currentHash == stack[Len(stack)]
        rest == SubSeq(stack, 1, Len(stack) - 1)
    IN IF currentHash \in visited
         THEN CreatesCycleLoop(predecessorMap, target, rest, visited)
         ELSE IF currentHash = target
           THEN {TRUE}
           ELSE UNION {CreatesCycleLoop(predecessorMap, target, rest \o order,
                                        visited \cup {currentHash}) :
                         order \in Orders(Bucket(predecessorMap, currentHash))}

\* The search walking outgoing edges instead of incoming ones.
CreatesCycleForwardBug(g, source, target) ==
  IF StoreVertex(g, source) # NoError
    THEN {[cycle |-> FALSE,
           err |-> Errorf("could not get vertex with hash", StoreVertex(g, source))]}
  ELSE IF StoreVertex(g, target) # NoError
    THEN {[cycle |-> FALSE,
           err |-> Errorf("could not get vertex with hash", StoreVertex(g, target))]}
  ELSE IF source = target
    THEN {[cycle |-> TRUE, err |-> NoError]}
  ELSE {[cycle |-> c, err |-> NoError] :
          c \in CreatesCycleLoop(AdjacencyMap(g), target, <<source>>, {})}

\* graph.CreatesCycle: the set of possible (result, error) pairs.
CreatesCycle(g, source, target) ==
  IF StoreVertex(g, source) # NoError
    THEN {[cycle |-> FALSE,
           err |-> Errorf("could not get vertex with hash", StoreVertex(g, source))]}
  ELSE IF StoreVertex(g, target) # NoError
    THEN {[cycle |-> FALSE,
           err |-> Errorf("could not get vertex with hash", StoreVertex(g, target))]}
  ELSE IF source = target
    THEN {[cycle |-> TRUE, err |-> NoError]}
  ELSE {[cycle |-> c, err |-> NoError] :
          c \in CreatesCycleLoop(PredecessorMap(g), target, <<source>>, {})}

\* directed.createsCycle: the slow path (the store's fast path has the same
\* semantics).
createsCycle(g, source, target) == CreatesCycle(g, source, target)

\* ------------------------------------------------------------------ directed graph
AddVertex(g, value) == StoreAddVertex(g, value)

Vertex(g, hash) == StoreVertex(g, hash)

\* RemoveVertex dropping the vertex whether or not edges are attached to it.
RemoveVertexIgnoringEdges(g, hash) ==
  IF hash \notin g.vertices
    THEN [g |-> g, err |-> ErrVertexNotFound]
    ELSE [g |-> [g EXCEPT !.vertices = @ \ {hash}], err |-> NoError]

RemoveVertex(g, hash) == StoreRemoveVertex(g, hash)

\* directed.Edge: the store's edge, then both endpoint vertices.
Edge(g, sourceHash, targetHash) ==
  IF StoreEdge(g, sourceHash, targetHash) # NoError
    THEN StoreEdge(g, sourceHash, targetHash)
  ELSE IF StoreVertex(g, sourceHash) # NoError
    THEN StoreVertex(g, sourceHash)
  ELSE StoreVertex(g, targetHash)

addEdge(g, sourceHash, targetHash) == StoreAddEdge(g, sourceHash, targetHash)

\* AddEdge never running the cycle check.
AddEdgeNoCycleCheck(g, sourceHash, targetHash) ==
  IF StoreVertex(g, sourceHash) # NoError
    THEN {[g |-> g, err |-> Errorf("source vertex", StoreVertex(g, sourceHash))]}
  ELSE IF StoreVertex(g, targetHash) # NoError
    THEN {[g |-> g, err |-> Errorf("target vertex", StoreVertex(g, targetHash))]}
  ELSE IF ~Is(Edge(g, sourceHash, targetHash), ErrEdgeNotFound)
    THEN {[g |-> g, err |-> ErrEdgeAlreadyExists]}
  ELSE {addEdge(g, sourceHash, targetHash)}

\* AddEdge storing the edge before it runs the cycle check.
AddEdgeCommitsBeforeCheck(g, sourceHash, targetHash) ==
  IF StoreVertex(g, sourceHash) # NoError
    THEN {[g |-> g, err |-> Errorf("source vertex", StoreVertex(g, sourceHash))]}
  ELSE IF StoreVertex(g, targetHash) # NoError
    THEN {[g |-> g, err |-> Errorf("target vertex", StoreVertex(g, targetHash))]}
  ELSE IF ~Is(Edge(g, sourceHash, targetHash), ErrEdgeNotFound)
    THEN {[g |-> g, err |-> ErrEdgeAlreadyExists]}
  ELSE IF g.traits.PreventCycles
    THEN {IF r.err # NoError THEN [g |-> g, err |-> Errorf("check for cycles", r.err)]
          ELSE IF r.cycle
            THEN [g |-> addEdge(g, sourceHash, targetHash).g, err |-> ErrEdgeCreatesCycle]
          ELSE addEdge(g, sourceHash, targetHash) :
            r \in createsCycle(g, sourceHash, targetHash)}
  ELSE {addEdge(g, sourceHash, targetHash)}

\* AddEdge looking up the target vertex before the source vertex.
AddEdgeTargetFirst(g, sourceHash, targetHash) ==
  IF StoreVertex(g, targetHash) # NoError
    THEN {[g |-> g, err |-> Errorf("target vertex", StoreVertex(g, targetHash))]}
  ELSE IF StoreVertex(g, sourceHash) # NoError
    THEN {[g |-> g, err |-> Errorf("source vertex", StoreVertex(g, sourceHash))]}
  ELSE IF ~Is(Edge(g, sourceHash, targetHash), ErrEdgeNotFound)
    THEN {[g |-> g, err |-> ErrEdgeAlreadyExists]}
  ELSE IF g.traits.PreventCycles
    THEN {IF r.err # NoError THEN [g |-> g, err |-> Errorf("check for cycles", r.err)]
          ELSE IF r.cycle THEN [g |-> g, err |-> ErrEdgeCreatesCycle]
          ELSE addEdge(g, sourceHash, targetHash) :
            r \in createsCycle(g, sourceHash, targetHash)}
  ELSE {addEdge(g, sourceHash, targetHash)}

\* AddEdge running the cycle check for every graph flagged acyclic.
AddEdgeChecksAcyclic(g, sourceHash, targetHash) ==
  IF StoreVertex(g, sourceHash) # NoError
    THEN {[g |-> g, err |-> Errorf("source vertex", StoreVertex(g, sourceHash))]}
  ELSE IF StoreVertex(g, targetHash) # NoError
    THEN {[g |-> g, err |-> Errorf("target vertex", StoreVertex(g, targetHash))]}
  ELSE IF ~Is(Edge(g, sourceHash, targetHash), ErrEdgeNotFound)
    THEN {[g |-> g, err |-> ErrEdgeAlreadyExists]}
  ELSE IF g.traits.IsAcyclic
    THEN {IF r.err # NoError THEN [g |-> g, err |-> Errorf("check for cycles", r.err)]
          ELSE IF r.cycle THEN [g |-> g, err |-> ErrEdgeCreatesCycle]
          ELSE addEdge(g, sourceHash, targetHash) :
            r \in createsCycle(g, sourceHash, targetHash)}
  ELSE {addEdge(g, sourceHash, targetHash)}

\* directed.AddEdge: the set of possible outcomes [g, err].
AddEdge(g, sourceHash, targetHash) ==
  IF StoreVertex(g, sourceHash) # NoError
    THEN {[g |-> g, err |-> Errorf("source vertex", StoreVertex(g, sourceHash))]}
  ELSE IF StoreVertex(g, targetHash) # NoError
    THEN {[g |-> g, err |-> Errorf("target vertex", StoreVertex(g, targetHash))]}
  ELSE IF ~Is(Edge(g, sourceHash, targetHash), ErrEdgeNotFound)
    THEN {[g |-> g, err |-> ErrEdgeAlreadyExists]}
  ELSE IF g.traits.PreventCycles
    THEN {IF r.err # NoError THEN [g |-> g, err |-> Errorf("check for cycles", r.err)]
          ELSE IF r.cycle THEN [g |-> g, err |-> ErrEdgeCreatesCycle]
          ELSE addEdge(g, sourceHash, targetHash) :
            r \in createsCycle(g, sourceHash, targetHash)}
  ELSE {addEdge(g, sourceHash, targetHash)}

RemoveEdge(g, source, target) ==
  IF Edge(g, source, target) # NoError
    THEN [g |-> g, err |-> Edge(g, source, target)]
    ELSE StoreRemoveEdge(g, source, target)

\* ------------------------------------------------------------------ traversal
\* The stack loop of DFS with the visitor of calculate (append, never stop):
\* the set of visit sequences over all bucket orders.
RECURSIVE DFSLoop(_, _, _)
DFSLoop(adjacencyMap, stack, visited) ==
  IF stack = <<>> THEN {visited}
  ELSE
    LET currentHash == stack[Len(stack)]
        rest == SubSeq(stack, 1, Len(stack) - 1)
    IN IF \E i \in 1..Len(visited) : visited[i] = currentHash
         THEN DFSLoop(adjacencyMap, rest, visited)
         ELSE UNION {DFSLoop(adjacencyMap, rest \o order,
                             Append(visited, currentHash)) :
                       order \in Orders(Bucket(adjacencyMap, currentHash))}

\* graph.DFS(g, start, visit): the possible outcomes [visited, err].
DFS(g, start) ==
  IF start \notin DOMAIN AdjacencyMap(g)
    THEN {[visited |-> <<>>, err |-> ErrVertexNotFound]}
    ELSE {[visited |-> v, err |-> NoError] :
            v \in DFSLoop(AdjacencyMap(g), <<start>>, <<>>)}

\* ------------------------------------------------------------------ calculate
\* The comparison closure handed to sort.Slice: "true", "false", or "panic"
\* when an index is out of range.
Less(a, b) ==
  IF Len(a) < 1 \/ Len(b) < 1 THEN "panic"
  ELSE IF a[1] < b[1] THEN "true"
  ELSE IF a[1] > b[1] THEN "false"
  ELSE IF Len(a) < 2 \/ Len(b) < 2 THEN "panic"
  ELSE IF a[2] < b[2] THEN "true" ELSE "false"

Swap(data, i, j) == [data EXCEPT ![i] = data[j], ![j] = data[i]]

\* The inner loop of the insertion sort sort.Slice runs on a short slice:
\* element j sinks while it is less than its left neighbour.
RECURSIVE InsertionInner(_, _)
InsertionInner(data, j) ==
  IF j <= 1 THEN [data |-> data, panic |-> FALSE]
  ELSE CASE Less(data[j], data[j - 1]) = "panic" -> [data |-> data, panic |-> TRUE]
         [] Less(data[j], data[j - 1]) = "true" -> InsertionInner(Swap(data, j, j - 1), j - 1)
         [] OTHER -> [data |-> data, panic |-> FALSE]

RECURSIVE InsertionSort(_, _)
InsertionSort(data, i) ==
  IF i > Len(data) THEN [data |-> data, panic |-> FALSE]
  ELSE LET r == InsertionInner(data, i)
       IN IF r.panic THEN r ELSE InsertionSort(r.data, i + 1)

\* calculate leaving the slice in the order it was handed in.
SortSegmentsSkipped(segments) == [data |-> segments, panic |-> FALSE]

\* sort.Slice(segments, less) of calculate.
SortSegments(segments) == InsertionSort(segments, 2)

\* The insert loop adding every edge without looking it up first.
BuildIterNoEdgeLookup(g, el) ==
  IF Len(el) < 2 THEN {[g |-> g, err |-> NoError, panic |-> TRUE]}
  ELSE
    LET source == el[1]
        target == el[2]
        r1 == IF Vertex(g, source) # NoError THEN AddVertex(g, source)
              ELSE [g |-> g, err |-> NoError]
        r2 == IF Vertex(r1.g, target) # NoError THEN AddVertex(r1.g, target)
              ELSE [g |-> r1.g, err |-> NoError]
    IN IF r1.err # NoError THEN {[g |-> r1.g, err |-> r1.err, panic |-> FALSE]}
       ELSE IF r2.err # NoError THEN {[g |-> r2.g, err |-> r2.err, panic |-> FALSE]}
       ELSE {[g |-> r.g, err |-> r.err, panic |-> FALSE] :
               r \in AddEdge(r2.g, source, target)}

\* The insert loop going on to the next segment after a failed AddEdge.
BuildIterSkipsFailure(g, el) ==
  IF Len(el) < 2 THEN {[g |-> g, err |-> NoError, panic |-> TRUE]}
  ELSE
    LET source == el[1]
        target == el[2]
        r1 == IF Vertex(g, source) # NoError THEN AddVertex(g, source)
              ELSE [g |-> g, err |-> NoError]
        r2 == IF Vertex(r1.g, target) # NoError THEN AddVertex(r1.g, target)
              ELSE [g |-> r1.g, err |-> NoError]
    IN IF r1.err # NoError THEN {[g |-> r1.g, err |-> r1.err, panic |-> FALSE]}
       ELSE IF r2.err # NoError THEN {[g |-> r2.g, err |-> r2.err, panic |-> FALSE]}
       ELSE IF Edge(r2.g, source, target) # NoError
         THEN {[g |-> r.g, err |-> NoError, panic |-> FALSE] :
                 r \in AddEdge(r2.g, source, target)}
         ELSE {[g |-> r2.g, err |-> NoError, panic |-> FALSE]}

\* One iteration of the insert loop of calculate: the possible outcomes
\* [g, err, panic].
BuildIter(g, el) ==
  IF Len(el) < 2 THEN {[g |-> g, err |-> NoError, panic |-> TRUE]}
  ELSE
    LET source == el[1]
        target == el[2]
        r1 == IF Vertex(g, source) # NoError THEN AddVertex(g, source)
              ELSE [g |-> g, err |-> NoError]
        r2 == IF Vertex(r1.g, target) # NoError THEN AddVertex(r1.g, target)
              ELSE [g |-> r1.g, err |-> NoError]
    IN IF r1.err # NoError THEN {[g |-> r1.g, err |-> r1.err, panic |-> FALSE]}
       ELSE IF r2.err # NoError THEN {[g |-> r2.g, err |-> r2.err, panic |-> FALSE]}
       ELSE IF Edge(r2.g, source, target) # NoError
         THEN {[g |-> r.g, err |-> r.err, panic |-> FALSE] :
                 r \in AddEdge(r2.g, source, target)}
         ELSE {[g |-> r2.g, err |-> NoError, panic |-> FALSE]}

\* A later traversal of the same length replacing the kept one.
ReplacesOnTie(dfs, innerDfs) == Len(dfs) <= Len(innerDfs)

\* The comparison keeping the shorter of the two traversals.
ReplacesWithShorter(dfs, innerDfs) ==
  Len(innerDfs) > 0 /\ (Len(dfs) = 0 \/ Len(innerDfs) < Len(dfs))

\* The comparison that keeps the longest traversal: innerDfs replaces dfs.
Replaces(dfs, innerDfs) == Len(dfs) < Len(innerDfs)

\* The traversal started from the segment's target instead of its source.
DFSIterFromTarget(g, el, dfs) ==
  {IF Replaces(dfs, r.visited) THEN r.visited ELSE dfs : r \in DFS(g, el[2])}

\* One iteration of the traversal loop of calculate: the possible next values
\* of dfs (a traversal error is printed and otherwise ignored).
DFSIter(g, el, dfs) ==
  {IF Replaces(dfs, r.visited) THEN r.visited ELSE dfs : r \in DFS(g, el[1])}

\* ------------------------------------------------------------------ inputs
\* Well-formed segments [source, target].
Pairs == {<<s, t>> : s \in Airports, t \in Airports}

\* Segments json.Unmarshal accepts into [][]string that are no pairs.
Malformed == {<<>>, <<1>>, <<1, 2, 1>>}

Elements == Pairs \cup Malformed

SegmentLists == UNION {[1..n -> Elements] : n \in 0..MaxSegs}

\* The lists compared under reordering.
ReorderElements ==
  {<<s, t>> : s \in 1..ReorderAirports, t \in 1..ReorderAirports} \cup Malformed

ReorderLists == UNION {[1..n -> ReorderElements] : n \in 0..MaxReorderSegs}

\* Request bodies: unreadable, empty, not a JSON array of string arrays, or
\* the JSON text of a segment list.
Bodies ==
  {[kind |-> k, segs |-> <<>>] : k \in {"readerr", "empty", "invalid"}}
    \cup {[kind |-> "json", segs |-> l] : l \in SegmentLists}

\* json.Unmarshal(body, &segments)
Unmarshal(b) ==
  IF b.kind = "json" THEN [segments |-> b.segs, err |-> NoError]
  ELSE [segments |-> <<>>, err |-> "wrong payload"]

\* The option lists a graph is created with.
TraitOptions == {<<"Directed", "PreventCycles">>, <<"Directed", "Acyclic">>}

\* ------------------------------------------------------------------ state
VARIABLES
  g,         \* the graph: [vertices, edges, traits]
  ret,       \* the last graph call of a client: [op, err]
  entry,     \* who runs: "graph" client, "Search" handler, direct "calculate" call
  pc,        \* position of the running request
  body,      \* the request body not yet read
  segments,  \* the segments slice of Search / calculate (sorted in place)
  idx,       \* index of the running loop of calculate
  dfs,       \* calculate's longest traversal so far
  result,    \* what calculate returned: [path, err]
  w,         \* the response written by Search: [code, error, full_path, short_path]
  ctx,       \* the context handed to calculate: "none", "live", "expired", "canceled"
  cc         \* a call of CreatesCycle: its arguments, locals and return values

vars == <<g, ret, entry, pc, body, segments, idx, dfs, result, w, ctx, cc>>

NoBody == [kind |-> "none", segs |-> <<>>]
NoResult == [path |-> <<>>, err |-> "none"]
NoResponse == [code |-> 0, error |-> "", full_path |-> <<>>, short_path |-> <<>>]
\* No call of CreatesCycle is running or has returned.
NoCycleCall ==
  [pc |-> "idle", source |-> 0, target |-> 0, stack |-> <<>>, visited |-> {},
   pops |-> 0, expanded |-> <<>>, cycle |-> FALSE, err |-> NoError]

NoCall == [op |-> "none", err |-> NoError]

StatusOK == 200
StatusBadRequest == 400

ErrorResponse(msg) ==
  [code |-> StatusBadRequest, error |-> msg, full_path |-> <<>>, short_path |-> <<>>]

SearchResponse(path) ==
  [code |-> StatusOK, error |-> "", full_path |-> path,
   short_path |-> <<path[1], path[Len(path)]>>]

\* ------------------------------------------------------------------ graph client
\* A client holding a graph calls its methods in any order.
InitGraph ==
  /\ g \in {New(o) : o \in TraitOptions}
  /\ ret = NoCall
  /\ entry = "graph"
  /\ pc = "graph"
  /\ body = NoBody
  /\ segments = <<>>
  /\ idx = 0
  /\ dfs = <<>>
  /\ result = NoResult
  /\ w = NoResponse
  /\ ctx = "none"
  /\ cc = NoCycleCall

RequestIdle == UNCHANGED <<entry, pc, body, segments, idx, dfs, result, w, ctx>>

CallAddVertex(value) ==
  /\ entry = "graph"
  /\ cc.pc # "loop"
  /\ g' = AddVertex(g, value).g
  /\ ret' = [op |-> "AddVertex", err |-> AddVertex(g, value).err]
  /\ RequestIdle
  /\ cc' = NoCycleCall

CallRemoveVertex(hash) ==
  /\ entry = "graph"
  /\ cc.pc # "loop"
  /\ g' = RemoveVertex(g, hash).g
  /\ ret' = [op |-> "RemoveVertex", err |-> RemoveVertex(g, hash).err]
  /\ RequestIdle
  /\ cc' = NoCycleCall

CallAddEdge(sourceHash, targetHash) ==
  /\ entry = "graph"
  /\ cc.pc # "loop"
  /\ \E r \in AddEdge(g, sourceHash, targetHash) :
       /\ Cardinality(r.g.edges) <= MaxEdges
       /\ g' = r.g
       /\ ret' = [op |-> "AddEdge", err |-> r.err]
  /\ RequestIdle
  /\ cc' = NoCycleCall

CallRemoveEdge(source, target) ==
  /\ entry = "graph"
  /\ cc.pc # "loop"
  /\ g' = RemoveEdge(g, source, target).g
  /\ ret' = [op |-> "RemoveEdge", err |-> RemoveEdge(g, source, target).err]
  /\ RequestIdle
  /\ cc' = NoCycleCall

NextGraph ==
  \/ \E v \in Hashes : CallAddVertex(v)
  \/ \E v \in Hashes : CallRemoveVertex(v)
  \/ \E s \in Hashes, t \in Hashes : CallAddEdge(s, t)
  \/ \E s \in Hashes, t \in Hashes : CallRemoveEdge(s, t)

SpecGraph == InitGraph /\ [][NextGraph]_vars

\* ------------------------------------------------------------------ cycle check client
\* graph.CreatesCycle entered by a client: the two vertex lookups, the
\* source == target test, and the stack holding the source.
CreatesCycleCall(source, target) ==
  /\ entry = "graph"
  /\ cc.pc # "loop"
  /\ Cardinality(g.edges) <= MaxLoopEdges
  /\ LET call == [NoCycleCall EXCEPT !.pc = "done", !.source = source, !.target = target]
     IN cc' = IF StoreVertex(g, source) # NoError
                THEN [call EXCEPT !.err = Errorf("could not get vertex with hash",
                                                 StoreVertex(g, source))]
              ELSE IF StoreVertex(g, target) # NoError
                THEN [call EXCEPT !.err = Errorf("could not get vertex with hash",
                                                 StoreVertex(g, target))]
              ELSE IF source = target
                THEN [call EXCEPT !.cycle = TRUE]
              ELSE [call EXCEPT !.pc = "loop", !.stack = <<source>>]
  /\ ret' = [op |-> "CreatesCycle", err |-> cc'.err]
  /\ UNCHANGED g
  /\ RequestIdle

\* The loop pushing the successors of the popped hash instead of its
\* predecessors.
CreatesCycleStepForward ==
  /\ cc.pc = "loop"
  /\ cc.stack # <<>>
  /\ LET currentHash == cc.stack[Len(cc.stack)]
         rest == SubSeq(cc.stack, 1, Len(cc.stack) - 1)
         popped == [cc EXCEPT !.stack = rest, !.pops = @ + 1]
     IN IF currentHash \in cc.visited
          THEN cc' = popped
        ELSE IF currentHash = cc.target
          THEN cc' = [popped EXCEPT !.pc = "done", !.cycle = TRUE]
        ELSE \E order \in Orders(Bucket(AdjacencyMap(g), currentHash)) :
               cc' = [popped EXCEPT !.stack = rest \o order,
                                    !.visited = @ \cup {currentHash},
                                    !.expanded = Append(@, currentHash)]
  /\ UNCHANGED <<g, ret>>
  /\ RequestIdle

\* The loop never marking the popped hash as visited.
CreatesCycleStepNoVisited ==
  /\ cc.pc = "loop"
  /\ cc.stack # <<>>
  /\ LET currentHash == cc.stack[Len(cc.stack)]
         rest == SubSeq(cc.stack, 1, Len(cc.stack) - 1)
         popped == [cc EXCEPT !.stack = rest, !.pops = @ + 1]
     IN IF currentHash \in cc.visited
          THEN cc' = popped
        ELSE IF currentHash = cc.target
          THEN cc' = [popped EXCEPT !.pc = "done", !.cycle = TRUE]
        ELSE \E order \in Orders(Bucket(PredecessorMap(g), currentHash)) :
               cc' = [popped EXCEPT !.stack = rest \o order,
                                    !.expanded = Append(@, currentHash)]
  /\ UNCHANGED <<g, ret>>
  /\ RequestIdle

\* One iteration of the stack loop: pop; a hash seen before is dropped, the
\* target ends the search, any other hash is marked and its predecessors are
\* pushed in the order the map range yields them.
CreatesCycleStep ==
  /\ cc.pc = "loop"
  /\ cc.stack # <<>>
  /\ LET currentHash == cc.stack[Len(cc.stack)]
         rest == SubSeq(cc.stack, 1, Len(cc.stack) - 1)
         popped == [cc EXCEPT !.stack = rest, !.pops = @ + 1]
     IN IF currentHash \in cc.visited
          THEN cc' = popped
        ELSE IF currentHash = cc.target
          THEN cc' = [popped EXCEPT !.pc = "done", !.cycle = TRUE]
        ELSE \E order \in Orders(Bucket(PredecessorMap(g), currentHash)) :
               cc' = [popped EXCEPT !.stack = rest \o order,
                                    !.visited = @ \cup {currentHash},
                                    !.expanded = Append(@, currentHash)]
  /\ UNCHANGED <<g, ret>>
  /\ RequestIdle

\* The loop left with an empty stack: return false, nil.
CreatesCycleReturn ==
  /\ cc.pc = "loop"
  /\ cc.stack = <<>>
  /\ cc' = [cc EXCEPT !.pc = "done", !.cycle = FALSE]
  /\ UNCHANGED <<g, ret>>
  /\ RequestIdle

NextCycle ==
  \/ NextGraph
  \/ \E s \in Hashes, t \in Hashes : CreatesCycleCall(s, t)
  \/ CreatesCycleStep
  \/ CreatesCycleReturn

\* The graph asked about is one that does not prevent cycles, so that it can
\* hold any edge set.
InitCycle == InitGraph /\ ~g.traits.PreventCycles

\* A client that also asks CreatesCycle about the graph it holds.
SpecCycle == InitCycle /\ [][NextCycle]_vars

\* A started call of CreatesCycle keeps running: nothing else runs meanwhile.
SpecCycleFair ==
  SpecCycle /\ WF_vars(CreatesCycleStep) /\ WF_vars(CreatesCycleReturn)

\* ------------------------------------------------------------------ request
\* The options calculate creates its graph with.
CalculateOptions == <<"Directed", "PreventCycles">>

\* A request is either served by the Search handler or, as in the package's
\* tests, is a direct call of calculate with any [][]string.
InitEntry(e) ==
  /\ g = New(<<>>)
  /\ ret = NoCall
  /\ entry = e
  /\ pc = e
  /\ IF e = "Search"
       THEN body \in Bodies /\ segments = <<>>
       ELSE body = NoBody /\ segments \in SegmentLists
  /\ idx = 0
  /\ dfs = <<>>
  /\ result = NoResult
  /\ w = NoResponse
  /\ ctx = IF e = "Search" THEN "none" ELSE "live"
  /\ cc = NoCycleCall

Init == \E e \in {"Search", "calculate"} : InitEntry(e)

\* defer cancel() of Search: a live context is cancelled when the handler ends.
Deferred(e, c) == IF e = "Search" /\ c = "live" THEN "canceled" ELSE c

\* Search calling calculate with whatever list the body holds.
SearchNoEmptyCheck ==
  /\ pc = "Search"
  /\ body' = NoBody
  /\ IF body.kind = "readerr"
       THEN /\ w' = ErrorResponse("read error")
            /\ pc' = "responded"
            /\ UNCHANGED segments
     ELSE IF body.kind = "empty"
       THEN /\ w' = ErrorResponse("empty payload")
            /\ pc' = "responded"
            /\ UNCHANGED segments
     ELSE IF Unmarshal(body).err # NoError
       THEN /\ w' = ErrorResponse("wrong payload")
            /\ pc' = "responded"
            /\ UNCHANGED segments
     ELSE /\ segments' = Unmarshal(body).segments
          /\ pc' = "calculate"
          /\ UNCHANGED w
  /\ ctx' = IF pc' = "calculate" THEN "live" ELSE ctx
  /\ UNCHANGED cc
  /\ UNCHANGED <<g, ret, entry, idx, dfs, result>>

\* Search up to the call of calculate: read, reject, unmarshal, reject; the
\* context with the 10 s timeout is created right before the call.
Search ==
  /\ pc = "Search"
  /\ body' = NoBody
  /\ IF body.kind = "readerr"
       THEN /\ w' = ErrorResponse("read error")
            /\ pc' = "responded"
            /\ UNCHANGED segments
     ELSE IF body.kind = "empty"
       THEN /\ w' = ErrorResponse("empty payload")
            /\ pc' = "responded"
            /\ UNCHANGED segments
     ELSE IF Unmarshal(body).err # NoError
       THEN /\ w' = ErrorResponse("wrong payload")
            /\ pc' = "responded"
            /\ UNCHANGED segments
     ELSE IF Len(Unmarshal(body).segments) = 0
       THEN /\ w' = ErrorResponse("wrong segments in payload")
            /\ pc' = "responded"
            /\ segments' = Unmarshal(body).segments
     ELSE /\ segments' = Unmarshal(body).segments
          /\ pc' = "calculate"
          /\ UNCHANGED w
  /\ ctx' = IF pc' = "calculate" THEN "live" ELSE ctx
  /\ UNCHANGED cc
  /\ UNCHANGED <<g, ret, entry, idx, dfs, result>>

\* calculate: sort the slice in place and create the graph.
CalculateSort ==
  /\ pc = "calculate"
  /\ segments' = SortSegments(segments).data
  /\ IF SortSegments(segments).panic
       THEN pc' = "panic" /\ UNCHANGED <<g, idx>>
       ELSE /\ pc' = "build"
            /\ g' = New(CalculateOptions)
            /\ idx' = 1
  /\ ctx' = IF pc' = "panic" THEN Deferred(entry, ctx) ELSE ctx
  /\ UNCHANGED cc
  /\ UNCHANGED <<ret, entry, body, dfs, result, w>>

\* calculate: one iteration of the insert loop.
CalculateBuild ==
  /\ pc = "build"
  /\ idx <= Len(segments)
  /\ \E r \in BuildIter(g, segments[idx]) :
       /\ g' = r.g
       /\ IF r.panic
            THEN pc' = "panic" /\ UNCHANGED <<idx, result>>
          ELSE IF r.err # NoError
            THEN /\ result' = [path |-> <<>>, err |-> r.err]
                 /\ pc' = "returned"
                 /\ UNCHANGED idx
          ELSE /\ idx' = idx + 1
               /\ UNCHANGED <<pc, result>>
  /\ ctx' = IF pc' = "panic" THEN Deferred(entry, ctx) ELSE ctx
  /\ UNCHANGED cc
  /\ UNCHANGED <<ret, entry, body, segments, dfs, w>>

\* calculate: the insert loop is over, the traversal loop starts.
CalculateBuildEnd ==
  /\ pc = "build"
  /\ idx > Len(segments)
  /\ pc' = "dfs"
  /\ idx' = 1
  /\ dfs' = <<>>
  /\ UNCHANGED <<g, ret, entry, body, segments, result, w, ctx>>
  /\ UNCHANGED cc

\* calculate: one iteration of the traversal loop.
CalculateDFS ==
  /\ pc = "dfs"
  /\ idx <= Len(segments)
  /\ \E d \in DFSIter(g, segments[idx], dfs) : dfs' = d
  /\ idx' = idx + 1
  /\ UNCHANGED <<g, ret, entry, pc, body, segments, result, w, ctx>>
  /\ UNCHANGED cc

\* calculate: return dfs, nil.
CalculateReturn ==
  /\ pc = "dfs"
  /\ idx > Len(segments)
  /\ result' = [path |-> dfs, err |-> NoError]
  /\ pc' = "returned"
  /\ UNCHANGED <<g, ret, entry, body, segments, idx, dfs, w, ctx>>
  /\ UNCHANGED cc

\* Search after calculate returned: the response.
Respond ==
  /\ entry = "Search"
  /\ pc = "returned"
  /\ w' = IF result.err # NoError THEN ErrorResponse(result.err)
          ELSE IF Len(result.path) = 0 THEN ErrorResponse("can't find route")
          ELSE SearchResponse(result.path)
  /\ pc' = "responded"
  /\ ctx' = Deferred(entry, ctx)
  /\ UNCHANGED cc
  /\ UNCHANGED <<g, ret, entry, body, segments, idx, dfs, result>>

\* The steps of calculate.
NextCalculate ==
  \/ CalculateSort
  \/ CalculateBuild
  \/ CalculateBuildEnd
  \/ CalculateDFS
  \/ CalculateReturn

Next ==
  \/ Search
  \/ NextCalculate
  \/ Respond

\* Requests of both kinds.
Spec == Init /\ [][Next]_vars

\* The deadline of the context passes (or its owner cancels it) while the
\* request runs.
Expire ==
  /\ ctx = "live"
  /\ pc \in {"calculate", "build", "dfs"}
  /\ ctx' = "expired"
  /\ UNCHANGED <<g, ret, entry, pc, body, segments, idx, dfs, result, w, cc>>

NextDeadline ==
  \/ Next
  \/ Expire

\* Requests whose context may expire at any moment.
SpecDeadline == Init /\ [][NextDeadline]_vars

\* Direct calls of calculate alone.
InitCalculate == InitEntry("calculate")

SpecCalculate == InitCalculate /\ [][NextCalculate]_vars

\* The error of a store whose listing fails, the only way directed.AdjacencyMap
\* (and graph.DFS, which reads it first) can fail for a stored start vertex.
ErrStoreListing == "store listing failed"

\* calculate: one iteration of the traversal loop in which graph.DFS returns
\* an error before it visits anything: the error is printed, innerDfs stays
\* nil, and the loop goes on.
CalculateDFSFails ==
  /\ pc = "dfs"
  /\ idx <= Len(segments)
  /\ ret' = [op |-> "DFS", err |-> Errorf("failed to list edges", ErrStoreListing)]
  /\ dfs' = IF Replaces(dfs, <<>>) THEN <<>> ELSE dfs
  /\ idx' = idx + 1
  /\ UNCHANGED <<g, entry, pc, body, segments, result, w, ctx, cc>>

NextFailingDFS ==
  \/ NextCalculate
  \/ CalculateDFSFails

\* Direct calls of calculate on the lists compared under reordering.
InitReorder ==
  /\ segments \in ReorderLists
  /\ InitCalculate

SpecReorder == InitReorder /\ [][NextCalculate]_vars

\* Direct calls of calculate on a graph whose traversal may fail.
SpecFailingDFS == InitCalculate /\ [][NextFailingDFS]_vars

\* ------------------------------------------------------------------ calculate as a function
\* The insert loop from segment k on: the possible outcomes [g, err, panic].
RECURSIVE BuildAll(_, _, _)
BuildAll(gr, segs, k) ==
  IF k > Len(segs) THEN {[g |-> gr, err |-> NoError, panic |-> FALSE]}
  ELSE UNION {IF r.panic \/ r.err # NoError THEN {r} ELSE BuildAll(r.g, segs, k + 1) :
                r \in BuildIter(gr, segs[k])}

\* The traversal loop from segment k on: the possible final values of dfs.
RECURSIVE DFSAll(_, _, _, _)
DFSAll(gr, segs, k, d) ==
  IF k > Len(segs) THEN {d}
  ELSE UNION {DFSAll(gr, segs, k + 1, d2) : d2 \in DFSIter(gr, segs[k], d)}

\* calculate(ctx, segments): the set of possible returns [path, err, panic].
calculate(segs) ==
  LET s == SortSegments(segs)
  IN IF s.panic THEN {[path |-> <<>>, err |-> NoError, panic |-> TRUE]}
     ELSE UNION {IF b.panic THEN {[path |-> <<>>, err |-> NoError, panic |-> TRUE]}
                 ELSE IF b.err # NoError
                   THEN {[path |-> <<>>, err |-> b.err, panic |-> FALSE]}
                 ELSE {[path |-> d, err |-> NoError, panic |-> FALSE] :
                         d \in DFSAll(b.g, s.data, 1, <<>>)} :
                   b \in BuildAll(New(CalculateOptions), s.data, 1)}

\* The stepwise run and the function agree on every return.
StepsAgreeWithCalculate ==
  /\ pc = "returned" =>
       [path |-> result.path, err |-> result.err, panic |-> FALSE] \in calculate(segments)
  /\ pc = "panic" => \E o \in calculate(segments) : o.panic

\* ------------------------------------------------------------------ reference notions
\* The vertices reachable from the set S along edges of E (S included).
RECURSIVE ReachableFrom(_, _)
ReachableFrom(E, S) ==
  LET n == S \cup {e[2] : e \in {x \in E : x[1] \in S}}
  IN IF n = S THEN S ELSE ReachableFrom(E, n)

HasSelfLoop(E) == \E e \in E : e[1] = e[2]

\* Some edge's source is reachable from its target.
HasCycle(E) == \E e \in E : e[1] \in ReachableFrom(E, {e[2]})

\* Every segment of the list is a 2-element pair.
WellFormed(segs) == \A i \in 1..Len(segs) : Len(segs[i]) = 2

\* The set of pairs of a well-formed segment list.
PairSet(segs) == {<<segs[i][1], segs[i][2]>> : i \in 1..Len(segs)}

\* The sequences of distinct airports.
SimpleSeqs ==
  UNION {{f \in [1..n -> Airports] : \A i, j \in 1..n : i # j => f[i] # f[j]} :
           n \in 1..NumAirports}

\* The edges between consecutive elements of a sequence.
ChainEdges(c) == {<<c[i], c[i + 1]>> : i \in 1..(Len(c) - 1)}

\* The directed paths of the graph with edge set E, and the longest of them.
SimplePaths(E) == {c \in SimpleSeqs : Len(c) >= 2 /\ ChainEdges(c) \subseteq E}

LongestPaths(E) ==
  {c \in SimplePaths(E) : \A d \in SimplePaths(E) : Len(d) <= Len(c)}

\* calculate accepted a non-empty list of pairs and returned a path.
Accepted ==
  /\ pc = "returned"
  /\ Len(segments) > 0
  /\ WellFormed(segments)
  /\ result.err = NoError

\* The pairs form one simple chain: no vertex has two outgoing or two incoming
\* pairs, there is no cycle, and exactly one vertex has no incoming pair.
IsSimpleChain(P) ==
  /\ P # {}
  /\ \A e, f \in P : (e[1] = f[1] \/ e[2] = f[2]) => e = f
  /\ ~HasCycle(P)
  /\ Cardinality({e[1] : e \in P} \ {e[2] : e \in P}) = 1

\* The chain from v on, following the one outgoing pair of each vertex.
RECURSIVE ChainFrom(_, _)
ChainFrom(P, v) ==
  IF \E e \in P : e[1] = v
    THEN <<v>> \o ChainFrom(P, (CHOOSE e \in P : e[1] = v)[2])
    ELSE <<v>>

\* The sequence v1, ..., vn of a simple chain.
ChainOf(P) == ChainFrom(P, CHOOSE v \in {e[1] : e \in P} \ {e[2] : e \in P} : TRUE)

\* The list with its k-th segment repeated at position p + 1.
Repeat(segs, k, p) ==
  SubSeq(segs, 1, p) \o <<segs[k]>> \o SubSeq(segs, p + 1, Len(segs))

\* The sources of the segments, and how many vertices each one reaches.
Sources(segs) == {segs[i][1] : i \in 1..Len(segs)}

ReachCount(segs, v) == Cardinality(ReachableFrom(PairSet(segs), {v}))

\* The smallest of the sources that reach the most vertices.
EarliestBestSource(segs) ==
  CHOOSE s \in Sources(segs) :
    /\ \A t \in Sources(segs) : ReachCount(segs, t) <= ReachCount(segs, s)
    /\ \A t \in Sources(segs) :
         ReachCount(segs, t) = ReachCount(segs, s) => s <= t

\* ------------------------------------------------------------------ claims
\* C1: in a graph created with PreventCycles, whatever calls of AddVertex,
\* AddEdge, RemoveEdge and RemoveVertex were made and however each ended, the
\* stored edges contain no self-loop and no directed cycle.
C1_NoCycleStored ==
  g.traits.PreventCycles => ~HasSelfLoop(g.edges) /\ ~HasCycle(g.edges)

\* A cycle-preventing graph holding a two-edge path has just refused an edge.
C1_Witness ==
  /\ g.traits.PreventCycles
  /\ ret = [op |-> "AddEdge", err |-> ErrEdgeCreatesCycle]
  /\ \E a, b, c \in Hashes :
       a # b /\ b # c /\ a # c /\ {<<a, b>>, <<b, c>>} \subseteq g.edges

\* C2: a non-empty list of pairs holding a self-loop or a directed cycle is
\* answered with the EdgeCreatesCycle error and no path; the run never reaches
\* the traversal stage.
C2_CycleRejected ==
  pc \in {"dfs", "panic", "returned", "responded"} =>
    ((Len(segments) > 0 /\ WellFormed(segments) /\ HasCycle(PairSet(segments))) =>
       /\ pc \notin {"dfs", "panic"}
       /\ pc = "returned" => result = [path |-> <<>>, err |-> ErrEdgeCreatesCycle]
       /\ pc = "responded" => w = ErrorResponse(ErrEdgeCreatesCycle))

\* A three-edge cycle over distinct airports was rejected.
C2_Witness ==
  /\ pc = "returned"
  /\ PairSet(segments) = {<<1, 2>>, <<2, 3>>, <<3, 1>>}
  /\ result.err = ErrEdgeCreatesCycle

\* C3: when the distinct pairs of the list form one simple chain
\* v1 -> v2 -> ... -> vn, in any input order and with any repetitions, synthesis
\* returns exactly <<v1, ..., vn>>.
C3_ChainReturned ==
  pc \in {"panic", "returned"} =>
    ((Len(segments) > 0 /\ WellFormed(segments) /\ IsSimpleChain(PairSet(segments))) =>
       /\ pc # "panic"
       /\ result = [path |-> ChainOf(PairSet(segments)), err |-> NoError])

\* A four-airport chain whose sorted segment order is not the chain order.
C3_Witness ==
  /\ pc = "returned"
  /\ segments = << <<1, 4>>, <<3, 1>>, <<4, 2>> >>
  /\ IsSimpleChain(PairSet(segments))
  /\ ChainOf(PairSet(segments)) = <<3, 1, 4, 2>>
  /\ result = [path |-> <<3, 1, 4, 2>>, err |-> NoError]

\* C4: the sequence returned for an accepted list is a connected chain: every
\* consecutive pair of it is one of the input segments.
C4_ConnectedChain ==
  Accepted =>
    \A i \in 1..(Len(result.path) - 1) :
      <<result.path[i], result.path[i + 1]>> \in PairSet(segments)

\* C5: for an accepted list the first and last elements of the returned path
\* are the start and the end of a longest directed path of the graph of the
\* segments.
C5_EndpointsOfLongest ==
  Accepted =>
    /\ Len(result.path) > 0
    /\ \E c \in LongestPaths(PairSet(segments)) :
         /\ c[1] = result.path[1]
         /\ c[Len(c)] = result.path[Len(result.path)]

\* C6: synthesis run again on the same input returns the same output: every
\* possible return of calculate on the slice equals the one just returned,
\* whatever the iteration order of the adjacency buckets.
C6_Deterministic ==
  Accepted =>
    \A o \in calculate(segments) :
      o = [path |-> result.path, err |-> result.err, panic |-> FALSE]

\* C7: repeating a segment of a list, at any position, changes nothing: the
\* list with the repetition has the same possible outcomes (paths or error).
C7_DuplicatesIgnored ==
  (pc = "calculate" /\ Len(segments) < MaxSegs) =>
    LET outcomes == calculate(segments)
    IN \A k \in 1..Len(segments), p \in 0..Len(segments) :
         calculate(Repeat(segments, k, p)) = outcomes

\* A list with a repeated segment returned the chain of its distinct pairs.
C7_Witness ==
  /\ pc = "returned"
  /\ segments = << <<1, 2>>, <<1, 2>>, <<2, 3>> >>
  /\ result = [path |-> <<1, 2, 3>>, err |-> NoError]

\* C8: the first-seen longest traversal wins: the returned path starts at the
\* smallest source among those reaching the most vertices and has that many
\* elements; of two disconnected two-airport chains the one with the smaller
\* source is returned whole, never a merge.
C8_FirstLongestWins ==
  Accepted =>
    /\ Len(result.path) = ReachCount(segments, EarliestBestSource(segments))
    /\ result.path[1] = EarliestBestSource(segments)
    /\ \A a, b, c, d \in Airports :
         (Cardinality({a, b, c, d}) = 4 /\ a < c
            /\ PairSet(segments) = {<<a, b>>, <<c, d>>}) =>
           result.path = <<a, b>>

\* Two disconnected chains: the one with the smaller source was returned.
C8_Witness ==
  /\ pc = "returned"
  /\ PairSet(segments) = {<<3, 2>>, <<1, 4>>}
  /\ result = [path |-> <<1, 4>>, err |-> NoError]

\* C9 as claimed: calculate called with zero segments never returns a nil
\* error, and Search answers 400 for an empty list or an empty body.
C9_CalculateRejectsEmpty ==
  /\ (entry = "calculate" /\ pc = "returned" /\ segments = <<>>) =>
       result.err # NoError
  /\ (entry = "Search" /\ pc = "responded" /\ segments = <<>>) =>
       w.code = StatusBadRequest

\* C9 as amended: Search answers 400 for an unreadable, empty or unparsable
\* body and for an empty list, and never calls calculate for them; calculate
\* itself does not reject an empty list: it returns an empty path and no error.
C9_EmptyRejectedBySearch ==
  /\ (entry = "calculate" /\ pc = "returned" /\ segments = <<>>) =>
       result = [path |-> <<>>, err |-> NoError]
  /\ (entry = "Search" /\ segments = <<>>) =>
       /\ pc \in {"Search", "responded"}
       /\ result = NoResult
       /\ pc = "responded" => w.code = StatusBadRequest /\ w.full_path = <<>>

\* calculate, called directly with zero segments, has returned.
C9_Witness ==
  /\ entry = "calculate"
  /\ pc = "returned"
  /\ segments = <<>>
  /\ result = [path |-> <<>>, err |-> NoError]

\* C10: a request holding a segment that is no 2-element pair is answered
\* with 400: the handler neither crashes nor answers 200.
C10_MalformedRejected ==
  (entry = "Search" /\ \E i \in 1..Len(segments) : Len(segments[i]) # 2) =>
    /\ pc # "panic"
    /\ pc = "responded" => w.code = StatusBadRequest

\* C11: once the context handed to calculate is cancelled or expired, the
\* next thing calculate does at a per-source traversal is to return a timeout
\* error with no path: it starts no further traversal and returns no sequence.
C11_DeadlineHonoured ==
  [][(ctx = "expired" /\ pc = "dfs" /\ idx <= Len(segments)) =>
       /\ pc' = "returned"
       /\ result'.path = <<>>
       /\ result'.err \notin {NoError, "none"}]_vars

\* C12: in every state the client's graph can be in, a call of AddEdge that
\* fails, with whichever error, leaves the vertex set and the edge set as they
\* were; a call that succeeds leaves the vertex set as it was and adds exactly
\* the edge (source, target), which was not stored before.
C12_FailedAddEdgeChangesNothing ==
  \A s, t \in Hashes :
    \A r \in AddEdge(g, s, t) :
      IF r.err # NoError
        THEN r.g.vertices = g.vertices /\ r.g.edges = g.edges
        ELSE /\ r.g.vertices = g.vertices
             /\ <<s, t>> \notin g.edges
             /\ r.g.edges = g.edges \cup {<<s, t>>}

\* An edge closing a cycle over a stored two-edge path was refused by a
\* cycle-preventing graph that still holds exactly those two edges.
C12_Witness ==
  /\ g.traits.PreventCycles
  /\ ret = [op |-> "AddEdge", err |-> ErrEdgeCreatesCycle]
  /\ g.edges = {<<1, 2>>, <<2, 3>>}
  /\ g.vertices = {1, 2, 3}

\* The error directed.AddEdge is to report on graph gr, by precedence.
ExpectedAddEdgeError(gr, s, t) ==
  IF s \notin gr.vertices THEN Errorf("source vertex", ErrVertexNotFound)
  ELSE IF t \notin gr.vertices THEN Errorf("target vertex", ErrVertexNotFound)
  ELSE IF <<s, t>> \in gr.edges THEN ErrEdgeAlreadyExists
  ELSE IF gr.traits.PreventCycles /\ (s = t \/ s \in ReachableFrom(gr.edges, {t}))
    THEN ErrEdgeCreatesCycle
  ELSE NoError

\* C13: in every state the client's graph can be in, AddEdge reports
\* VertexNotFound (as source vertex) for an absent source, else
\* VertexNotFound for an absent target, else EdgeAlreadyExists for a stored
\* pair, else, with PreventCycles only, EdgeCreatesCycle for an edge closing a
\* cycle; it succeeds exactly when none of these applies.
C13_AddEdgeErrorPrecedence ==
  \A s, t \in Hashes :
    \A r \in AddEdge(g, s, t) : r.err = ExpectedAddEdgeError(g, s, t)

\* With neither vertex stored, the absent source was the one reported.
C13_Witness ==
  /\ ret = [op |-> "AddEdge", err |-> Errorf("source vertex", ErrVertexNotFound)]
  /\ g.vertices = {}

\* C14: on every graph, with or without cycles in it, a returned call
\* CreatesCycle(g, source, target) on two stored vertices says true exactly
\* when source = target or edges of the graph lead from target to source; with
\* either vertex absent it returns a VertexNotFound error and no true.  The
\* result is one the function form, used by AddEdge, can return too.
C14_CreatesCycleIffPath ==
  cc.pc = "done" =>
    /\ IF cc.source \notin g.vertices \/ cc.target \notin g.vertices
         THEN Is(cc.err, ErrVertexNotFound) /\ ~cc.cycle
         ELSE /\ cc.err = NoError
              /\ cc.cycle = (\/ cc.source = cc.target
                             \/ cc.source \in ReachableFrom(g.edges, {cc.target}))
    /\ [cycle |-> cc.cycle, err |-> cc.err] \in CreatesCycle(g, cc.source, cc.target)

\* On a graph that already holds a cycle, the search answered true for an
\* edge whose target leads to its source over more than one stored edge.
C14_Witness ==
  /\ cc.pc = "done"
  /\ cc.cycle
  /\ cc.source # cc.target
  /\ HasCycle(g.edges)
  /\ <<cc.target, cc.source>> \notin g.edges
  /\ cc.source \in ReachableFrom(g.edges, {cc.target})

\* No element occurs twice in the sequence.
NoRepeat(seq) == \A i, j \in 1..Len(seq) : i # j => seq[i] # seq[j]

\* C20: a call of CreatesCycle on any graph, also one holding cycles or
\* self-loops, expands no vertex twice, pops at most one hash per stored edge
\* plus the source, leaves the vertices and edges as they are, and, once in
\* its loop, always returns.
C20_CreatesCycleTerminates ==
  /\ [](cc.pc # "idle" =>
          /\ NoRepeat(cc.expanded)
          /\ Len(cc.expanded) <= Cardinality(g.vertices)
          /\ cc.pops + Len(cc.stack) <= 1 + Cardinality(g.edges))
  /\ [][cc'.pc # "idle" =>
          g'.vertices = g.vertices /\ g'.edges = g.edges]_vars
  /\ (cc.pc = "loop") ~> (cc.pc = "done")

\* The search returned false on a graph holding a two-vertex cycle and a
\* self-loop, after it expanded both vertices of the cycle.
C20_Witness ==
  /\ cc.pc = "done"
  /\ ~cc.cycle
  /\ cc.err = NoError
  /\ {<<1, 2>>, <<2, 1>>, <<2, 2>>} \subseteq g.edges
  /\ cc.source = 1
  /\ cc.target = 3
  /\ Len(cc.expanded) = 2

\* C15: after any sequence of AddVertex, AddEdge, RemoveEdge and RemoveVertex
\* calls the source and the target of every stored edge are stored vertices;
\* and RemoveVertex of a vertex some edge enters or leaves fails with
\* VertexHasEdges and removes neither a vertex nor an edge.
C15_ReferentialIntegrity ==
  /\ [](\A e \in g.edges : e[1] \in g.vertices /\ e[2] \in g.vertices)
  /\ [][\A h \in Hashes :
          (CallRemoveVertex(h) /\ \E e \in g.edges : e[1] = h \/ e[2] = h) =>
            /\ ret'.err = ErrVertexHasEdges
            /\ g'.vertices = g.vertices
            /\ g'.edges = g.edges]_vars

\* The removal of a vertex was refused while the only edge attached to a
\* vertex of the graph is an incoming one.
C15_Witness ==
  /\ ret = [op |-> "RemoveVertex", err |-> ErrVertexHasEdges]
  /\ g.vertices = {1, 2}
  /\ g.edges = {<<1, 2>>}

\* C17: in every reachable graph state AdjacencyMap has an entry for exactly
\* the stored vertices, also for those without outgoing edge; adj[s][t] is
\* present exactly when the edge (s, t) is stored; PredecessorMap has an entry
\* for every stored vertex and pred[t][s] is present exactly when adj[s][t] is.
C17_MapsMirrorStore ==
  LET adj == AdjacencyMap(g)
      pred == PredecessorMap(g)
  IN /\ DOMAIN adj = g.vertices
     /\ \A s, t \in Hashes :
          (s \in DOMAIN adj /\ t \in adj[s]) <=> (<<s, t>> \in g.edges)
     /\ g.vertices \subseteq DOMAIN pred
     /\ \A s, t \in Hashes :
          (t \in DOMAIN pred /\ s \in pred[t]) <=> (s \in DOMAIN adj /\ t \in adj[s])

\* Vertex 1 has two outgoing edges and no incoming one, vertices 2 and 3 have
\* no outgoing edge: all three have their entries in both maps.
C17_Witness ==
  /\ g.vertices = {1, 2, 3}
  /\ g.edges = {<<1, 2>>, <<1, 3>>}
  /\ AdjacencyMap(g) = (1 :> {2, 3}) @@ (2 :> {}) @@ (3 :> {})
  /\ PredecessorMap(g) = (1 :> {}) @@ (2 :> {1}) @@ (3 :> {1})

\* C16: the sequence calculate returns for a non-empty list it accepts repeats
\* no vertex, begins with the source of some segment, holds exactly the
\* vertices reachable from its first element over the segments (that element
\* included), and is as long as the largest such reachable set of any source.
C16_PathIsReachableSet ==
  (pc = "returned" /\ result.err = NoError /\ Len(segments) > 0) =>
    LET p == result.path
    IN /\ Len(p) > 0
       /\ NoRepeat(p)
       /\ p[1] \in Sources(segments)
       /\ {p[i] : i \in 1..Len(p)} = ReachableFrom(PairSet(segments), {p[1]})
       /\ \A s \in Sources(segments) : ReachCount(segments, s) <= Len(p)

\* A branching graph: the source 4 reaches all four airports, the source 1
\* only three of them; the path returned starts at 4 and holds all four.
C16_Witness ==
  /\ pc = "returned"
  /\ PairSet(segments) = {<<1, 2>>, <<1, 3>>, <<4, 1>>}
  /\ result.err = NoError
  /\ Len(result.path) = 4
  /\ result.path[1] = 4

\* The strings occurring as source or target of a segment; the first k
\* segments of a list.
Strings(segs) == UNION {{segs[i][1], segs[i][2]} : i \in 1..Len(segs)}

Prefix(segs, k) == SubSeq(segs, 1, k)

\* C18: when calculate returns a path, the graph it built has as vertices
\* exactly the strings occurring in the segments and as edges exactly the
\* distinct pairs; when it returns an error, it returns no path, the error is
\* the one of the first segment, in sorted order, whose edge cannot be
\* inserted, and nothing after that segment was inserted.
C18_BuiltGraph ==
  pc = "returned" =>
    IF result.err = NoError
      THEN /\ g.vertices = Strings(segments)
           /\ g.edges = PairSet(segments)
      ELSE /\ result = [path |-> <<>>, err |-> ErrEdgeCreatesCycle]
           /\ idx \in 1..Len(segments)
           /\ \A i \in 1..(Len(segments) - 1) :
                Less(segments[i + 1], segments[i]) = "false"
           /\ ~HasCycle(PairSet(Prefix(segments, idx - 1)))
           /\ HasCycle(PairSet(Prefix(segments, idx)))
           /\ g.edges = PairSet(Prefix(segments, idx - 1))
           /\ g.vertices = Strings(Prefix(segments, idx))

\* The second of three sorted segments closed a cycle: the third one, over
\* two other airports, was never inserted.
C18_Witness ==
  /\ pc = "returned"
  /\ result.err = ErrEdgeCreatesCycle
  /\ segments = << <<1, 2>>, <<2, 1>>, <<3, 4>> >>
  /\ idx = 2
  /\ g.vertices = {1, 2}
  /\ g.edges = {<<1, 2>>}

\* C19: for a non-empty list of pairs without a cycle calculate neither
\* panics nor fails, and returns at least 2 elements, which Search answers
\* with 200; and no request that passed the empty-input check of Search is
\* answered with "can't find route".
C19_RouteAlwaysFound ==
  /\ (/\ pc \in {"panic", "returned", "responded"}
      /\ Len(segments) > 0
      /\ WellFormed(segments)
      /\ ~HasCycle(PairSet(segments))) =>
       /\ pc # "panic"
       /\ pc = "returned" => result.err = NoError /\ Len(result.path) >= 2
       /\ pc = "responded" => w.code = StatusOK /\ Len(w.full_path) >= 2
  /\ entry = "Search" => w.error # "can't find route"

\* The shortest accepted request, one segment, was answered with its two
\* airports.
C19_Witness ==
  /\ entry = "Search"
  /\ pc = "responded"
  /\ segments = << <<1, 2>> >>
  /\ w = SearchResponse(<<1, 2>>)

\* C21: when a traversal started by calculate has failed, calculate returns
\* that error and no path.
C21_TraversalErrorReturned ==
  (pc = "returned" /\ ret.op = "DFS" /\ ret.err # NoError) =>
    result = [path |-> <<>>, err |-> ret.err]

\* C22: the option PreventCycles sets the acyclic flag and the prevent-cycles
\* flag, the option Acyclic the acyclic flag alone; and in a graph created
\* with Acyclic but without PreventCycles, AddEdge of a pair not yet stored
\* between two stored vertices always succeeds and stores the pair, also when
\* it is a self-loop or closes a directed cycle.
C22_AcyclicDoesNotCheck ==
  /\ PreventCycles(Traits) = [IsDirected |-> FALSE, IsAcyclic |-> TRUE, PreventCycles |-> TRUE]
  /\ Acyclic(Traits) = [IsDirected |-> FALSE, IsAcyclic |-> TRUE, PreventCycles |-> FALSE]
  /\ g.traits.PreventCycles => g.traits.IsAcyclic
  /\ (g.traits.IsAcyclic /\ ~g.traits.PreventCycles) =>
       \A s, t \in g.vertices :
         <<s, t>> \notin g.edges =>
           AddEdge(g, s, t) =
             {[g |-> [g EXCEPT !.edges = @ \cup {<<s, t>>}], err |-> NoError]}

\* A graph flagged acyclic without cycle prevention has just stored an edge
\* and holds a self-loop and a two-vertex cycle.
C22_Witness ==
  /\ g.traits.IsAcyclic
  /\ ~g.traits.PreventCycles
  /\ ret = [op |-> "AddEdge", err |-> NoError]
  /\ g.edges = {<<1, 1>>, <<2, 3>>, <<3, 2>>}

\* The list with its i-th and (i + 1)-th segments exchanged.
SwapAdjacent(segs, i) == [segs EXCEPT ![i] = segs[i + 1], ![i + 1] = segs[i]]

\* C23: reordering the input changes nothing: exchanging any two neighbouring
\* segments of a list (and so, by repetition, any permutation of it) leaves
\* the set of possible outcomes of calculate (paths, error or panic) as it is.
C23_OrderIrrelevant ==
  pc = "calculate" =>
    LET outcomes == calculate(segments)
    IN \A i \in 1..(Len(segments) - 1) :
         calculate(SwapAdjacent(segments, i)) = outcomes

\* calculate returned a path for three segments it left sorted in its slice;
\* the same three segments handed in in the opposite order have the same two
\* possible paths, the returned one among them.
C23_Witness ==
  /\ pc = "returned"
  /\ segments = << <<1, 2>>, <<1, 3>>, <<2, 3>> >>
  /\ result = [path |-> <<1, 3, 2>>, err |-> NoError]
  /\ calculate(<< <<2, 3>>, <<1, 3>>, <<1, 2>> >>) =
       {[path |-> <<1, 2, 3>>, err |-> NoError, panic |-> FALSE],
        [path |-> <<1, 3, 2>>, err |-> NoError, panic |-> FALSE]}

\* C24: whatever duplicates and shared endpoints a non-empty list holds, the
\* error calculate returns for it is nil or EdgeCreatesCycle itself: never
\* VertexAlreadyExists, EdgeAlreadyExists or VertexNotFound, bare or wrapped.
C24_OnlyCycleError ==
  (pc = "returned" /\ Len(segments) > 0) =>
    /\ result.err \in {NoError, ErrEdgeCreatesCycle}
    /\ ~Is(result.err, ErrVertexAlreadyExists)
    /\ ~Is(result.err, ErrEdgeAlreadyExists)
    /\ ~Is(result.err, ErrVertexNotFound)

\* A list with a repeated segment, whose two airports every segment shares,
\* was rejected for the cycle its last segment closes.
C24_Witness ==
  /\ pc = "returned"
  /\ segments = << <<1, 2>>, <<1, 2>>, <<2, 1>> >>
  /\ result = [path |-> <<>>, err |-> ErrEdgeCreatesCycle]

====
